---- MODULE Spec2Model ----
(***************************************************************************)
(* Session-state mirror, reconnection timer and HTTP facade of the         *)
(* WhatsApp microservice (src/index.js).  The file holds two variants of   *)
(* the same script (lines 1-206 and 208-382); `variant` selects one.       *)
(***************************************************************************)
EXTENDS Integers, Sequences, FiniteSets, Bags, TLC

VARIABLES
    variant,          \* 1: lines 1-206, 2: lines 208-382
    lastQr,           \* module-level state, lines 63-67 / 249-253
    isReady,
    isAuthenticated,
    lastAuthFailure,
    lastDisconnect,
    encoding,         \* bag of qr handlers suspended at `await qrcode.toDataURL(qr)`
    timers,           \* pending setTimeout callbacks, each () => client.initialize()
    initCalls,        \* number of client.initialize() calls made so far
    initPending,      \* initialize() promises not yet settled
    disconnects,      \* number of disconnected events handled so far
    proc,             \* position of the process: loading/starting/listening/closing/exited
    chatsPending,     \* /chats handlers suspended at `await client.getChats()`
    signals,          \* SIGTERM/SIGINT signals handled so far
    destroyPending,   \* shutdown() calls suspended at `await client.destroy()`
    keepAlive,        \* a client connection opened before server.close() is still open
    profile,          \* PROFILE_DIR on disk: whether it exists and the lock files in it
    cleanups,         \* number of ensureProfileAndCleanLocks() runs so far
    ref,              \* the five fields as obtained by applying each event at emission
    last              \* what the last step did (handler run, response sent)

mirror == <<lastQr, isReady, isAuthenticated, lastAuthFailure, lastDisconnect>>
vars == <<variant, lastQr, isReady, isAuthenticated, lastAuthFailure,
          lastDisconnect, encoding, timers, initCalls, initPending,
          disconnects, proc, chatsPending, signals, destroyPending,
          keepAlive, profile, cleanups, ref, last>>
chatVars == <<chatsPending>>
downVars == <<signals, destroyPending, keepAlive>>
fsVars == <<profile, cleanups>>

----------------------------------------------------------------------------
(* Bounds *)
MaxEncoding == 2      \* qr handlers suspended at the same time
MaxTimers == 2        \* pending timers at the same time
MaxInitCalls == 3     \* initialize() calls in one run
MaxSignals == 2       \* termination signals in one run
MaxChatsPending == 2  \* /chats requests in flight at the same time
MaxChats == 2         \* chats in one getChats() result

(* Program constants *)
ReconnectDelay == 5000
BootDelay == 0
TickMs == ReconnectDelay \div 2

----------------------------------------------------------------------------
(* JavaScript values that the handlers store and test for truthiness *)
Null == [t |-> "null", v |-> ""]
Undefined == [t |-> "undefined", v |-> ""]
Str(s) == [t |-> "string", v |-> s]

Truthy(x) == x.t = "string" /\ x.v # ""

\* a || b
OrElse(a, b) == IF Truthy(a) THEN a ELSE b

\* !!a
Bool(a) == Truthy(a)

Codes == {"ABC", "XYZ"}
Reasons == {Undefined, Str(""), Str("NAVIGATION")}
Messages == {Undefined, Str(""), Str("bad session")}

\* qrcode.toDataURL(qr): the image payload of the code, a data URL
toDataURL(qr) == Str("data:image/png;base64," \o qr)

Min(a, b) == IF a < b THEN a ELSE b

RemoveAt(s, i) == SubSeq(s, 1, i - 1) \o SubSeq(s, i + 1, Len(s))

\* the handlers are registered and the process has not exited
Alive == proc \notin {"loading", "exited"}

\* the listener accepts requests: from the listen callback to server.close
Serving == proc = "listening" \/ (proc = "closing" /\ keepAlive)

----------------------------------------------------------------------------
(* Effects of the lifecycle handlers on a record of the five fields; the   *)
(* same operators drive the program variables and the in-order reference.  *)
State == [lastQr |-> lastQr, isReady |-> isReady,
          isAuthenticated |-> isAuthenticated,
          lastAuthFailure |-> lastAuthFailure,
          lastDisconnect |-> lastDisconnect]

\* QrEffect with `isReady = false` left out
QrEffectKeepsReady(s, qr) == [s EXCEPT !.lastQr = toDataURL(qr),
                                       !.isAuthenticated = FALSE]

\* lines 100-102: the three assignments after the await
QrEffect(s, qr) == [s EXCEPT !.lastQr = toDataURL(qr),
                             !.isAuthenticated = FALSE,
                             !.isReady = FALSE]

\* line 109
ReadyEffect(s) == [s EXCEPT !.isReady = TRUE]

\* AuthenticatedEffect with `lastQr = null` left out
AuthenticatedEffectKeepsQr(s) == [s EXCEPT !.isAuthenticated = TRUE,
                                           !.lastAuthFailure = Null]

\* lines 114-116
AuthenticatedEffect(s) == [s EXCEPT !.isAuthenticated = TRUE,
                                    !.lastAuthFailure = Null,
                                    !.lastQr = Null]

\* AuthFailureEffect storing msg without the "unknown" default
AuthFailureEffectRaw(s, msg) == [s EXCEPT !.isAuthenticated = FALSE,
                                          !.lastAuthFailure = msg]

\* lines 121-122
AuthFailureEffect(s, msg) == [s EXCEPT !.isAuthenticated = FALSE,
                                       !.lastAuthFailure = OrElse(msg, Str("unknown"))]

\* DisconnectedEffect that also signs the session out
DisconnectedEffectSignsOut(s, reason) ==
    [s EXCEPT !.isReady = FALSE,
              !.isAuthenticated = FALSE,
              !.lastDisconnect = OrElse(reason, Str("unknown"))]

\* lines 127-128
DisconnectedEffect(s, reason) == [s EXCEPT !.isReady = FALSE,
                                           !.lastDisconnect = OrElse(reason, Str("unknown"))]

Store(s) ==
    /\ lastQr' = s.lastQr
    /\ isReady' = s.isReady
    /\ isAuthenticated' = s.isAuthenticated
    /\ lastAuthFailure' = s.lastAuthFailure
    /\ lastDisconnect' = s.lastDisconnect

\* setTimeout(() => client.initialize(), delay); src names the call site
setTimeout(ts, src, delay) == Append(ts, [src |-> src, delay |-> delay, waited |-> 0])

Pending(qr, ok) == [qr |-> qr, ok |-> ok]
One(e) == SetToBag({e})

(* The profile directory.  ensureProfileAndCleanLocks (lines 20-43) makes  *)
(* the directory, removes the two fixed lock files, lists the directory    *)
(* and removes every SingletonSocket* file; any fs call may throw, which   *)
(* ends the cleanup where it is and only logs a warning.                   *)
lockFiles == {"SingletonLock", "SingletonCookie"}
SocketFiles == {"SingletonSocket1"}
OtherFiles == {"Preferences"}
FileNames == lockFiles \cup SocketFiles \cup OtherFiles
NoProfile == [dir |-> FALSE, files |-> {}, dangling |-> {}]

\* the profiles the module can find: a lock file is a regular file or a
\* symbolic link whose target is gone, which is how the browser writes it
Profiles ==
    {NoProfile} \cup
    UNION {[dir : {TRUE}, files : {F}, dangling : SUBSET (F \cap lockFiles)] :
             F \in SUBSET FileNames}

\* fs.existsSync follows links: false for a link whose target is gone
existsSync(fs, f) == f \in fs.files \ fs.dangling

\* fs.rmSync(p, { force: true }) unlinks the entry itself
rmSync(fs, names) ==
    [dir |-> TRUE, files |-> fs.files \ names, dangling |-> fs.dangling \ names]

\* the fixed lock files the loop of lines 26-29 removes
Existing(fs) == {f \in lockFiles : existsSync(fs, f)}

\* the fs calls in program order: 1 mkdirSync, 2 rmSync(SingletonLock),
\* 3 rmSync(SingletonCookie), 4 readdirSync, 5 rmSync(SingletonSocket*)
FsCalls == 1..5

\* call k is made on this profile, so it is a call that can throw
CallMade(fs, k) ==
    CASE k = 1 -> ~fs.dir
      [] k = 2 -> existsSync(fs, "SingletonLock")
      [] k = 3 -> existsSync(fs, "SingletonCookie")
      [] k = 4 -> TRUE
      [] k = 5 -> fs.files \cap SocketFiles # {}

\* the profile after a cleanup in which call failAt throws (0: none throws)
ensureProfileAndCleanLocks(fs, failAt) ==
    CASE failAt = 0 -> rmSync(fs, Existing(fs) \cup SocketFiles)
      [] failAt = 1 -> fs
      [] failAt = 2 -> rmSync(fs, {})
      [] failAt = 3 -> rmSync(fs, Existing(fs) \ {"SingletonCookie"})
      [] failAt \in {4, 5} -> rmSync(fs, Existing(fs))

Failures(fs) == {0} \cup {k \in FsCalls : CallMade(fs, k)}

----------------------------------------------------------------------------
Init ==
    /\ variant \in {1, 2}
    /\ lastQr = Null
    /\ isReady = FALSE
    /\ isAuthenticated = FALSE
    /\ lastAuthFailure = Null
    /\ lastDisconnect = Null
    /\ encoding = EmptyBag
    /\ timers = <<>>
    /\ initCalls = 0
    /\ initPending = 0
    /\ disconnects = 0
    /\ proc = "starting"
    /\ chatsPending = 0
    /\ signals = 0
    /\ destroyPending = 0
    /\ keepAlive = FALSE
    /\ profile = [dir |-> TRUE, files |-> {}, dangling |-> {}]
    /\ cleanups = IF variant = 1 THEN 1 ELSE 0
    /\ ref = State
    /\ last = [kind |-> "load"]

(* client.on("qr"): the handler logs, calls toDataURL and suspends at the  *)
(* await; `ok` is whether the encoding will succeed                        *)
EmitQr(qr, ok) ==
    /\ Alive
    /\ BagCardinality(encoding) < MaxEncoding
    /\ encoding' = encoding (+) One(Pending(qr, ok))
    /\ ref' = IF ok THEN QrEffect(ref, qr) ELSE ref
    /\ last' = [kind |-> "qr", qr |-> qr]
    /\ UNCHANGED <<variant, mirror, timers, initCalls, initPending, disconnects, proc>>
    /\ UNCHANGED <<chatVars, downVars, fsVars>>

(* the awaited toDataURL promise fulfils: lines 100-102 run *)
QrEncoded(qr) ==
    /\ Alive
    /\ BagIn(Pending(qr, TRUE), encoding)
    /\ Store(QrEffect(State, qr))
    /\ encoding' = encoding (-) One(Pending(qr, TRUE))
    /\ last' = [kind |-> "qr_encoded", qr |-> qr]
    /\ UNCHANGED <<variant, timers, initCalls, initPending, disconnects, proc, ref>>
    /\ UNCHANGED <<chatVars, downVars, fsVars>>

(* QrEncodeFailed with a catch block that also drops the stored code *)
QrEncodeFailedClears(qr) ==
    /\ Alive
    /\ BagIn(Pending(qr, FALSE), encoding)
    /\ encoding' = encoding (-) One(Pending(qr, FALSE))
    /\ lastQr' = Null
    /\ last' = [kind |-> "qr_failed", qr |-> qr]
    /\ UNCHANGED <<variant, isReady, isAuthenticated, lastAuthFailure, lastDisconnect,
                   timers, initCalls, initPending, disconnects, proc, ref>>
    /\ UNCHANGED <<chatVars, downVars, fsVars>>

(* the awaited toDataURL promise rejects: the catch block logs, line 104 *)
QrEncodeFailed(qr) ==
    /\ Alive
    /\ BagIn(Pending(qr, FALSE), encoding)
    /\ encoding' = encoding (-) One(Pending(qr, FALSE))
    /\ last' = [kind |-> "qr_failed", qr |-> qr]
    /\ UNCHANGED <<variant, mirror, timers, initCalls, initPending, disconnects, proc, ref>>
    /\ UNCHANGED <<chatVars, downVars, fsVars>>

(* client.on("ready") *)
OnReady ==
    /\ Alive
    /\ Store(ReadyEffect(State))
    /\ ref' = ReadyEffect(ref)
    /\ last' = [kind |-> "ready"]
    /\ UNCHANGED <<variant, encoding, timers, initCalls, initPending, disconnects, proc>>
    /\ UNCHANGED <<chatVars, downVars, fsVars>>

(* client.on("authenticated") *)
OnAuthenticated ==
    /\ Alive
    /\ Store(AuthenticatedEffect(State))
    /\ ref' = AuthenticatedEffect(ref)
    /\ last' = [kind |-> "authenticated"]
    /\ UNCHANGED <<variant, encoding, timers, initCalls, initPending, disconnects, proc>>
    /\ UNCHANGED <<chatVars, downVars, fsVars>>

(* client.on("auth_failure") *)
OnAuthFailure(msg) ==
    /\ Alive
    /\ Store(AuthFailureEffect(State, msg))
    /\ ref' = AuthFailureEffect(ref, msg)
    /\ last' = [kind |-> "auth_failure", arg |-> msg]
    /\ UNCHANGED <<variant, encoding, timers, initCalls, initPending, disconnects, proc>>
    /\ UNCHANGED <<chatVars, downVars, fsVars>>

\* line 130: variant 1 cleans the locks, variant 2 has no such call
CleanupOnDisconnect(failAt) ==
    IF variant = 1
      THEN /\ failAt \in Failures(profile)
           /\ profile' = ensureProfileAndCleanLocks(profile, failAt)
           /\ cleanups' = cleanups + 1
      ELSE /\ failAt = 0
           /\ UNCHANGED fsVars

(* OnDisconnected without the setTimeout call *)
OnDisconnectedNoRetry(reason) ==
    /\ Alive
    /\ Len(timers) < MaxTimers
    /\ Store(DisconnectedEffect(State, reason))
    /\ ref' = DisconnectedEffect(ref, reason)
    /\ disconnects' = disconnects + 1
    /\ \E failAt \in {0} \cup FsCalls :
          /\ CleanupOnDisconnect(failAt)
          /\ last' = [kind |-> "disconnected", arg |-> reason, warn |-> failAt # 0]
    /\ UNCHANGED <<variant, encoding, timers, initCalls, initPending, proc>>
    /\ UNCHANGED <<chatVars, downVars>>

(* OnDisconnected with a cleanup whose fault escapes the handler *)
OnDisconnectedCleanupThrows(reason) ==
    /\ Alive
    /\ Len(timers) < MaxTimers
    /\ Store(DisconnectedEffect(State, reason))
    /\ ref' = DisconnectedEffect(ref, reason)
    /\ disconnects' = disconnects + 1
    /\ \E failAt \in {0} \cup FsCalls :
          /\ CleanupOnDisconnect(failAt)
          /\ timers' = IF failAt # 0 THEN timers
                       ELSE setTimeout(timers, "reconnect", ReconnectDelay)
          /\ last' = [kind |-> "disconnected", arg |-> reason, warn |-> failAt # 0]
    /\ UNCHANGED <<variant, encoding, initCalls, initPending, proc>>
    /\ UNCHANGED <<chatVars, downVars>>

(* client.on("disconnected"): state, lock cleanup (variant 1, line 130),   *)
(* then setTimeout(initialize, 5000).  The cleanup catches its own faults  *)
(* (lines 21-42).                                                          *)
OnDisconnected(reason) ==
    /\ Alive
    /\ Len(timers) < MaxTimers
    /\ Store(DisconnectedEffect(State, reason))
    /\ ref' = DisconnectedEffect(ref, reason)
    /\ \E failAt \in {0} \cup FsCalls :
          /\ CleanupOnDisconnect(failAt)
          /\ last' = [kind |-> "disconnected", arg |-> reason, warn |-> failAt # 0]
    /\ timers' = setTimeout(timers, "reconnect", ReconnectDelay)
    /\ disconnects' = disconnects + 1
    /\ UNCHANGED <<variant, encoding, initCalls, initPending, proc>>
    /\ UNCHANGED <<chatVars, downVars>>

(* module load, lines 17-70 / 227-230: variant 1 runs the cleanup once,    *)
(* variant 2 makes the directory outside any try, before the               *)
(* uncaughtException handler is registered                                 *)
LoadModule ==
    /\ proc = "loading"
    /\ \E failAt \in {0} \cup FsCalls, execThrows \in BOOLEAN :
          IF variant = 1
            THEN /\ ~execThrows
                 /\ failAt \in Failures(profile)
                 /\ profile' = ensureProfileAndCleanLocks(profile, failAt)
                 /\ cleanups' = cleanups + 1
                 /\ proc' = "starting"
                 /\ last' = [kind |-> "loaded", warn |-> failAt # 0]
            ELSE /\ failAt \in {0, 1}
                 /\ failAt = 1 => (~profile.dir /\ ~execThrows)
                 /\ profile' = IF failAt = 0 THEN [profile EXCEPT !.dir = TRUE] ELSE profile
                 /\ UNCHANGED cleanups
                 /\ proc' = IF failAt = 0 /\ ~execThrows THEN "starting" ELSE "exited"
                 /\ last' = [kind |-> "loaded", warn |-> FALSE]
    /\ UNCHANGED <<variant, mirror, encoding, timers, initCalls, initPending,
                   disconnects, ref>>
    /\ UNCHANGED <<chatVars, downVars>>

(* the browser started by initialize() writes its singleton files into the *)
(* profile (--user-data-dir, line 80)                                      *)
BrowserLocks ==
    /\ Alive
    /\ variant = 1
    /\ initCalls > 0
    /\ profile' = [dir |-> TRUE,
                   files |-> profile.files \cup lockFiles \cup SocketFiles,
                   dangling |-> lockFiles]
    /\ last' = [kind |-> "browser"]
    /\ UNCHANGED <<variant, mirror, encoding, timers, initCalls, initPending,
                   disconnects, proc, ref, cleanups>>
    /\ UNCHANGED <<chatVars, downVars>>

(* time passes for every pending timer *)
Tick ==
    /\ Alive
    /\ \E i \in 1..Len(timers) : timers[i].waited < timers[i].delay
    /\ timers' = [i \in 1..Len(timers) |->
                    [timers[i] EXCEPT !.waited = Min(@ + TickMs, timers[i].delay)]]
    /\ last' = [kind |-> "tick"]
    /\ UNCHANGED <<variant, mirror, encoding, initCalls, initPending, disconnects, proc, ref>>
    /\ UNCHANGED <<chatVars, downVars, fsVars>>

(* a due timer runs its callback: client.initialize() *)
TimerFires(i) ==
    /\ Alive
    /\ i \in 1..Len(timers)
    /\ timers[i].waited >= timers[i].delay
    /\ initCalls < MaxInitCalls
    /\ timers' = RemoveAt(timers, i)
    /\ initCalls' = initCalls + 1
    /\ initPending' = initPending + 1
    /\ last' = [kind |-> "initialize", src |-> timers[i].src, waited |-> timers[i].waited]
    /\ UNCHANGED <<variant, mirror, encoding, disconnects, proc, ref>>
    /\ UNCHANGED <<chatVars, downVars, fsVars>>

(* Listening that both arms the boot timer and calls initialize() itself *)
ListeningInitTwice ==
    /\ proc = "starting"
    /\ proc' = "listening"
    /\ timers' = setTimeout(timers, "boot", BootDelay)
    /\ initCalls' = initCalls + 1
    /\ initPending' = initPending + 1
    /\ last' = [kind |-> "listening"]
    /\ UNCHANGED <<variant, mirror, encoding, disconnects, ref>>
    /\ UNCHANGED <<chatVars, downVars, fsVars>>

(* app.listen callback: variant 1 defers initialize with setTimeout(.., 0), *)
(* variant 2 calls it directly and awaits it                                *)
Listening ==
    /\ proc = "starting"
    /\ proc' = "listening"
    /\ IF variant = 1
         THEN /\ timers' = setTimeout(timers, "boot", BootDelay)
              /\ UNCHANGED <<initCalls, initPending>>
         ELSE /\ initCalls' = initCalls + 1
              /\ initPending' = initPending + 1
              /\ UNCHANGED timers
    /\ last' = [kind |-> "listening"]
    /\ UNCHANGED <<variant, mirror, encoding, disconnects, ref>>
    /\ UNCHANGED <<chatVars, downVars, fsVars>>

(* InitSettles with a rejection handler that schedules another attempt *)
InitSettlesRetry(ok) ==
    /\ Alive
    /\ initPending > 0
    /\ initPending' = initPending - 1
    /\ timers' = IF ok \/ Len(timers) >= MaxTimers THEN timers
                  ELSE setTimeout(timers, "reconnect", ReconnectDelay)
    /\ last' = [kind |-> IF ok THEN "init_resolved" ELSE "init_rejected"]
    /\ UNCHANGED <<variant, mirror, encoding, initCalls, disconnects, proc, ref>>
    /\ UNCHANGED <<chatVars, downVars, fsVars>>

(* an initialize() promise settles; a rejection is only logged: by the     *)
(* unhandledRejection handler, or by the catch of variant 2's listen       *)
(* callback                                                                *)
InitSettles(ok) ==
    /\ Alive
    /\ initPending > 0
    /\ initPending' = initPending - 1
    /\ last' = [kind |-> IF ok THEN "init_resolved" ELSE "init_rejected"]
    /\ UNCHANGED <<variant, mirror, encoding, timers, initCalls, disconnects, proc, ref>>
    /\ UNCHANGED <<chatVars, downVars, fsVars>>

----------------------------------------------------------------------------
(* GET /chats, lines 161-174: the handler awaits client.getChats() *)

\* a chat object of the client; id is absent or an object with _serialized
Chat(id, name, title, isGroup) ==
    [id |-> id, name |-> name, formattedTitle |-> title, isGroup |-> isGroup]
IdObject(serialized) == [t |-> "object", v |-> serialized]

ChatObjects ==
    { Chat(IdObject("1@c.us"), Str("Ana"), Str("+34 600"), FALSE),
      Chat(IdObject("2@g.us"), Str(""), Str("Team"), TRUE),
      Chat(IdObject("3@c.us"), Undefined, Str("+34 611"), FALSE),
      Chat(Undefined, Undefined, Undefined, TRUE) }

ChatLists == UNION {[1..n -> ChatObjects] : n \in 0..MaxChats}
ErrorMessages == {Str("Session closed"), Str("Evaluation failed"), Undefined}

\* c.id?._serialized
Serialized(id) == IF id.t = "object" THEN Str(id.v) ELSE Undefined

\* the mapped object with a name that falls back only when the name is absent
projectNullish(c) ==
    [id |-> Serialized(c.id),
     name |-> IF c.name \in {Undefined, Null} THEN c.formattedTitle ELSE c.name,
     isGroup |-> c.isGroup]

\* lines 165-169; a property whose value is undefined is left out by res.json
project(c) ==
    [id |-> Serialized(c.id),
     name |-> OrElse(c.name, c.formattedTitle),
     isGroup |-> c.isGroup]

\* chats.map(...)
chatsMap(chats) == [i \in 1..Len(chats) |-> project(chats[i])]

(* a /chats request arrives: the handler calls getChats() and suspends *)
GetChats ==
    /\ Serving
    /\ chatsPending < MaxChatsPending
    /\ chatsPending' = chatsPending + 1
    /\ last' = [kind |-> "request", route |-> "/chats"]
    /\ UNCHANGED <<variant, mirror, encoding, timers, initCalls, initPending,
                   disconnects, proc, ref>>
    /\ UNCHANGED <<downVars, fsVars>>

(* getChats() fulfils: lines 164-170 *)
ChatsResolve(chats) ==
    /\ Alive
    /\ chatsPending > 0
    /\ chatsPending' = chatsPending - 1
    /\ last' = [kind |-> "response", route |-> "/chats", status |-> 200,
                body |-> chatsMap(chats), settled |-> "fulfilled", value |-> chats]
    /\ UNCHANGED <<variant, mirror, encoding, timers, initCalls, initPending,
                   disconnects, proc, ref>>
    /\ UNCHANGED <<downVars, fsVars>>

(* ChatsReject that answers an empty list *)
ChatsRejectAnswersEmpty(msg) ==
    /\ Alive
    /\ chatsPending > 0
    /\ chatsPending' = chatsPending - 1
    /\ last' = [kind |-> "response", route |-> "/chats", status |-> 200,
                body |-> <<>>, settled |-> "rejected",
                value |-> [message |-> msg]]
    /\ UNCHANGED <<variant, mirror, encoding, timers, initCalls, initPending,
                   disconnects, proc, ref>>
    /\ UNCHANGED <<downVars, fsVars>>

(* getChats() throws or rejects with e: line 172 *)
ChatsReject(msg) ==
    /\ Alive
    /\ chatsPending > 0
    /\ chatsPending' = chatsPending - 1
    /\ last' = [kind |-> "response", route |-> "/chats", status |-> 500,
                body |-> [error |-> msg], settled |-> "rejected",
                value |-> [message |-> msg]]
    /\ UNCHANGED <<variant, mirror, encoding, timers, initCalls, initPending,
                   disconnects, proc, ref>>
    /\ UNCHANGED <<downVars, fsVars>>

----------------------------------------------------------------------------
(* Shutdown, lines 194-206 *)

(* Signal that also clears the pending timers *)
SignalCancelsTimers ==
    /\ proc \in {"listening", "closing"}
    /\ signals < MaxSignals
    /\ signals' = signals + 1
    /\ destroyPending' = destroyPending + 1
    /\ timers' = <<>>
    /\ last' = [kind |-> "signal"]
    /\ UNCHANGED <<variant, mirror, encoding, initCalls, initPending,
                   disconnects, proc, keepAlive, ref>>
    /\ UNCHANGED <<chatVars, fsVars>>

(* SIGTERM / SIGINT: shutdown() logs, calls client.destroy() and suspends *)
Signal ==
    /\ proc \in {"listening", "closing"}
    /\ signals < MaxSignals
    /\ signals' = signals + 1
    /\ destroyPending' = destroyPending + 1
    /\ last' = [kind |-> "signal"]
    /\ UNCHANGED <<variant, mirror, encoding, timers, initCalls, initPending,
                   disconnects, proc, keepAlive, ref>>
    /\ UNCHANGED <<chatVars, fsVars>>

(* the connections server.close() leaves open: none is new; while the     *)
(* process listens a client may or may not hold one, whether or not a      *)
(* handler is suspended (its client may be gone); a connection held        *)
(* through an earlier close stays if it is in use and is destroyed by      *)
(* this close if it is idle                                                *)
StillOpen ==
    IF proc = "closing" /\ ~keepAlive THEN {FALSE} ELSE BOOLEAN

(* DestroySettles with a rejection that escapes shutdown() *)
DestroySettlesRethrows(ok, closeThrows) ==
    /\ Alive
    /\ destroyPending > 0
    /\ destroyPending' = destroyPending - 1
    /\ proc' = IF ~ok THEN proc ELSE IF closeThrows THEN "exited" ELSE "closing"
    /\ keepAlive' \in (IF ok /\ ~closeThrows THEN StillOpen ELSE {keepAlive})
    /\ last' = [kind |-> "destroy_settled", ok |-> ok, closeThrew |-> ok /\ closeThrows]
    /\ UNCHANGED <<variant, mirror, encoding, timers, initCalls, initPending,
                   disconnects, signals, ref>>
    /\ UNCHANGED <<chatVars, fsVars>>

(* the destroy() promise settles, a rejection is swallowed (line 198);     *)
(* then server.close(cb) is called, and if that call throws the catch      *)
(* exits at once (line 202).  server.close stops the listener and leaves   *)
(* the connections that are open to be served until they end.              *)
DestroySettles(ok, closeThrows) ==
    /\ Alive
    /\ destroyPending > 0
    /\ destroyPending' = destroyPending - 1
    /\ proc' = IF closeThrows THEN "exited" ELSE "closing"
    /\ keepAlive' \in (IF closeThrows THEN {keepAlive} ELSE StillOpen)
    /\ last' = [kind |-> "destroy_settled", ok |-> ok, closeThrew |-> closeThrows]
    /\ UNCHANGED <<variant, mirror, encoding, timers, initCalls, initPending,
                   disconnects, signals, ref>>
    /\ UNCHANGED <<chatVars, fsVars>>

(* a client ends the connection it held through the close, with or        *)
(* without a handler still suspended, or the server's idle timeout ends it *)
ConnectionEnds ==
    /\ proc = "closing"
    /\ keepAlive
    /\ keepAlive' = FALSE
    /\ last' = [kind |-> "connection_ended"]
    /\ UNCHANGED <<variant, mirror, encoding, timers, initCalls, initPending,
                   disconnects, proc, signals, destroyPending, ref>>
    /\ UNCHANGED <<chatVars, fsVars>>

(* the listener has closed and every connection has ended: the callback    *)
(* of server.close runs process.exit(0), line 200; it waits for            *)
(* connections only, not for a suspended handler                           *)
Closed ==
    /\ proc = "closing"
    /\ ~keepAlive
    /\ proc' = "exited"
    /\ last' = [kind |-> "closed"]
    /\ UNCHANGED <<variant, mirror, encoding, timers, initCalls, initPending,
                   disconnects, signals, destroyPending, keepAlive, ref>>
    /\ UNCHANGED <<chatVars, fsVars>>

----------------------------------------------------------------------------
(* HTTP facade: every handler is synchronous and only reads the state *)

\* HealthBody reporting isReady in the authenticated field
HealthBodySwapped == [ok |-> TRUE, ready |-> isReady, authenticated |-> isReady,
                      auth_failure |-> lastAuthFailure]

\* lines 138-143
HealthBody == [ok |-> TRUE, ready |-> isReady, authenticated |-> isAuthenticated,
               auth_failure |-> lastAuthFailure]

\* StatusBody deriving qr_available from the session flags
StatusBodyGuessesQr == [ready |-> isReady, authenticated |-> isAuthenticated,
                        auth_failure |-> lastAuthFailure, disconnected |-> lastDisconnect,
                        qr_available |-> ~isAuthenticated]

\* lines 147-153
StatusBody == [ready |-> isReady, authenticated |-> isAuthenticated,
               auth_failure |-> lastAuthFailure, disconnected |-> lastDisconnect,
               qr_available |-> Bool(lastQr)]

\* lines 157-158
QrBody == IF ~Truthy(lastQr) THEN [qr |-> Str("")] ELSE [qr |-> lastQr]

(* Respond that hands the stored code out only once *)
RespondConsumesQr(route, body) ==
    /\ Serving
    /\ last' = [kind |-> "response", route |-> route, status |-> 200, body |-> body]
    /\ lastQr' = Null
    /\ UNCHANGED <<variant, isReady, isAuthenticated, lastAuthFailure, lastDisconnect,
                   encoding, timers, initCalls, initPending, disconnects, proc, ref>>
    /\ UNCHANGED <<chatVars, downVars, fsVars>>

Respond(route, body) ==
    /\ Serving
    /\ last' = [kind |-> "response", route |-> route, status |-> 200, body |-> body]
    /\ UNCHANGED <<variant, mirror, encoding, timers, initCalls, initPending,
                   disconnects, proc, ref>>
    /\ UNCHANGED <<chatVars, downVars, fsVars>>

GetHealth == Respond("/health", HealthBody)
GetStatus == variant = 1 /\ Respond("/status", StatusBody)
GetQr == Respond("/qr", QrBody)

\* the text of the root route, line 176 (variant 1) and line 350 (variant
\* 2); a character outside ASCII is written as its JavaScript escape
RootText(v) ==
    IF v = 1 THEN "\\u{1F4E1} Microservicio WhatsApp activo y listo!"
    ELSE "\\u{1F4E1} Microservicio WhatsApp activo y listo \\u{1F680}"

GetRoot == Respond("/", Str(RootText(variant)))

----------------------------------------------------------------------------
(* the mirror and the HTTP facade of a listening process *)
Next ==
    \/ Listening
    \/ \E qr \in Codes, ok \in BOOLEAN : EmitQr(qr, ok)
    \/ \E qr \in Codes : QrEncoded(qr)
    \/ \E qr \in Codes : QrEncodeFailed(qr)
    \/ OnReady
    \/ OnAuthenticated
    \/ \E msg \in Messages : OnAuthFailure(msg)
    \/ \E reason \in Reasons : OnDisconnected(reason)
    \/ GetHealth
    \/ GetStatus
    \/ GetQr
    \/ GetRoot

Spec == Init /\ [][Next]_vars

(* the reconnection policy: disconnects, timers and initialize() calls *)
NextReconnect ==
    \/ Listening
    \/ OnReady
    \/ OnAuthenticated
    \/ \E reason \in Reasons : OnDisconnected(reason)
    \/ Tick
    \/ \E i \in 1..MaxTimers : TimerFires(i)
    \/ \E ok \in BOOLEAN : InitSettles(ok)
    \/ GetHealth

SpecReconnect == Init /\ [][NextReconnect]_vars

(* the whole HTTP facade, /chats included, against the mirror *)
NextChats ==
    \/ Listening
    \/ \E qr \in Codes : EmitQr(qr, TRUE)
    \/ \E qr \in Codes : QrEncoded(qr)
    \/ OnReady
    \/ GetHealth
    \/ GetStatus
    \/ GetQr
    \/ GetRoot
    \/ GetChats
    \/ \E chats \in ChatLists : ChatsResolve(chats)
    \/ \E msg \in ErrorMessages : ChatsReject(msg)

SpecChats == Init /\ [][NextChats]_vars

(* shutdown against the reconnection policy; the close callback runs once  *)
(* the listener has drained                                                *)
NextShutdown ==
    \/ Listening
    \/ OnReady
    \/ \E reason \in Reasons : OnDisconnected(reason)
    \/ Tick
    \/ \E i \in 1..MaxTimers : TimerFires(i)
    \/ GetHealth
    \/ Signal
    \/ \E ok \in BOOLEAN, closeThrows \in BOOLEAN : DestroySettles(ok, closeThrows)
    \/ GetChats
    \/ \E msg \in ErrorMessages : ChatsReject(msg)
    \/ ConnectionEnds
    \/ Closed

(* the close callback runs once no connection is left; nothing in         *)
(* shutdown() makes a held connection end, so that is left to the client   *)
SpecShutdown ==
    /\ Init
    /\ [][NextShutdown]_vars
    /\ WF_vars(Closed)

(* the profile directory from before the module is loaded *)
InitCleanup ==
    /\ variant \in {1, 2}
    /\ lastQr = Null
    /\ isReady = FALSE
    /\ isAuthenticated = FALSE
    /\ lastAuthFailure = Null
    /\ lastDisconnect = Null
    /\ encoding = EmptyBag
    /\ timers = <<>>
    /\ initCalls = 0
    /\ initPending = 0
    /\ disconnects = 0
    /\ proc = "loading"
    /\ chatsPending = 0
    /\ signals = 0
    /\ destroyPending = 0
    /\ keepAlive = FALSE
    /\ profile \in Profiles
    /\ cleanups = 0
    /\ ref = State
    /\ last = [kind |-> "boot"]

NextCleanup ==
    \/ LoadModule
    \/ Listening
    \/ OnReady
    \/ \E reason \in Reasons : OnDisconnected(reason)
    \/ Tick
    \/ \E i \in 1..MaxTimers : TimerFires(i)
    \/ BrowserLocks

SpecCleanup == InitCleanup /\ [][NextCleanup]_vars

----------------------------------------------------------------------------
(* Properties *)

NoHandlerInProgress == encoding = EmptyBag

\* the value `x || "unknown"` is required to be, stated on the argument
Expected(x) == IF x.t = "string" /\ x.v # "" THEN x ELSE Str("unknown")

PendingReconnects == Cardinality({i \in 1..Len(timers) : timers[i].src = "reconnect"})
PendingBoot == Cardinality({i \in 1..Len(timers) : timers[i].src = "boot"})
BootCalls == IF proc = "starting" THEN 0 ELSE 1 - PendingBoot

\* C1: in every reachable state, ready == true implies authenticated == true.
C1_ReadyImpliesAuthenticated == isReady => isAuthenticated

\* C2: right after the qr handler has stored a successfully encoded code,
\* authenticated and ready are false, GET /qr answers the payload of that code
\* and GET /health answers ok:true, ready:false, authenticated:false.
C2_AfterQr ==
    last.kind = "qr_encoded" =>
        /\ isAuthenticated = FALSE
        /\ isReady = FALSE
        /\ QrBody = [qr |-> Str("data:image/png;base64," \o last.qr)]
        /\ HealthBody.ok = TRUE
        /\ HealthBody.ready = FALSE
        /\ HealthBody.authenticated = FALSE

C2_Witness ==
    /\ last.kind = "qr_encoded"
    /\ last.qr = "ABC"
    /\ Serving
    /\ lastAuthFailure # Null

\* C3: right after an authenticated event, authenticated is true, lastQr is
\* empty (GET /qr answers "") and lastAuthFailure is empty (auth_failure null).
C3_AfterAuthenticated ==
    last.kind = "authenticated" =>
        /\ isAuthenticated = TRUE
        /\ lastQr = Null
        /\ QrBody = [qr |-> Str("")]
        /\ lastAuthFailure = Null
        /\ HealthBody.auth_failure = Null

C3_Witness ==
    /\ last.kind = "authenticated"
    /\ Serving
    /\ encoding # EmptyBag
    /\ lastDisconnect # Null

\* C4: right after a disconnected event ready is false and lastDisconnect is
\* the reason or "unknown"; every disconnect accounts for exactly one
\* initialize() call, made or still pending on its timer, and a reconnect
\* timer calls initialize() only once 5000 ms have passed.
C4_Reconnect ==
    /\ last.kind = "disconnected" =>
          /\ isReady = FALSE
          /\ lastDisconnect = Expected(last.arg)
          /\ PendingReconnects >= 1
    /\ initCalls + PendingReconnects = BootCalls + disconnects
    /\ (last.kind = "initialize" /\ last.src = "reconnect") => last.waited >= 5000

C4_Witness ==
    /\ last.kind = "initialize"
    /\ last.src = "reconnect"
    /\ disconnects = 2
    /\ initCalls = 3
    /\ timers = <<>>

\* C5 as stated: once an initialize() attempt has failed, another attempt is
\* scheduled on the reconnect timer.
C5_RetryAfterFailure ==
    last.kind = "init_rejected" => PendingReconnects >= 1

\* C5 amended: a failed initialize() is only logged, it schedules nothing and
\* changes no state; initialize() is called only by the listen callback, its
\* boot timer, or a reconnect timer armed by a disconnected event.
C5_FailureOnlyLogged ==
    [][/\ last'.kind = "init_rejected" =>
            /\ timers' = timers
            /\ initCalls' = initCalls
            /\ mirror' = mirror
            /\ proc' = proc
       /\ Len(timers') > Len(timers) => last'.kind \in {"disconnected", "listening"}
       /\ initCalls' # initCalls => last'.kind \in {"initialize", "listening"}]_vars

C5_Witness ==
    /\ last.kind = "init_rejected"
    /\ initCalls >= 2
    /\ initPending = 0
    /\ timers = <<>>

\* C6: whenever no qr handler is suspended, the five fields equal the state
\* obtained by applying each emitted event's effect in emission order.
C6_InOrder == NoHandlerInProgress => State = ref

\* C7: with no handler in progress, a non-empty lastQr implies
\* authenticated == false and ready == false.
C7_QrExcludesSession ==
    (NoHandlerInProgress /\ Truthy(lastQr)) => (~isAuthenticated /\ ~isReady)

\* C8: the step in which an encoding failure is handled leaves all five
\* fields unchanged and the process running.
C8_EncodeFailureFrame ==
    [][last'.kind = "qr_failed" => (mirror' = mirror /\ proc' = proc /\ Alive')]_vars

C8_Witness ==
    /\ last.kind = "qr_failed"
    /\ Truthy(lastQr)
    /\ isReady
    /\ lastAuthFailure # Null

\* C9: right after an auth_failure event authenticated is false and
\* lastAuthFailure, as reported by /health and /status, is the reason or
\* "unknown"; only an authenticated event empties lastAuthFailure again.
C9_AuthFailure ==
    /\ [](last.kind = "auth_failure" =>
            /\ isAuthenticated = FALSE
            /\ lastAuthFailure = Expected(last.arg)
            /\ HealthBody.auth_failure = Expected(last.arg)
            /\ StatusBody.auth_failure = Expected(last.arg))
    /\ [][(lastAuthFailure # Null /\ lastAuthFailure' = Null)
            => last'.kind = "authenticated"]_vars

C9_Witness ==
    /\ last.kind = "auth_failure"
    /\ last.arg = Undefined
    /\ lastAuthFailure = Str("unknown")
    /\ Serving

\* C10: the body of every /health response is the (ready, authenticated,
\* lastAuthFailure) triple of the single state in which the request is
\* handled, and handling it changes none of the five fields.
C10_HealthSnapshot ==
    [][(last'.kind = "response" /\ last'.route = "/health") =>
          /\ last'.body = [ok |-> TRUE, ready |-> isReady,
                           authenticated |-> isAuthenticated,
                           auth_failure |-> lastAuthFailure]
          /\ mirror' = mirror]_vars

C10_Witness ==
    /\ last.kind = "response"
    /\ last.route = "/health"
    /\ last.body.ready = TRUE
    /\ last.body.authenticated = FALSE
    /\ encoding # EmptyBag

\* C11: with no handler in progress, GET /qr answers "" exactly when no login
\* code is pending and otherwise the payload of the most recently issued code,
\* whatever the order in which the encodings completed.
C11_MostRecentCode ==
    NoHandlerInProgress =>
        QrBody.qr = (IF ref.lastQr = Null THEN Str("") ELSE ref.lastQr)

\* C17: every /status response agrees with what /health and /qr answer in the
\* same state: same ready, authenticated and auth_failure, disconnected is
\* lastDisconnect, and qr_available is true exactly when /qr is non-empty.
C17_StatusAgrees ==
    [][(last'.kind = "response" /\ last'.route = "/status") =>
          /\ last'.body.ready = HealthBody.ready
          /\ last'.body.authenticated = HealthBody.authenticated
          /\ last'.body.auth_failure = HealthBody.auth_failure
          /\ last'.body.disconnected = lastDisconnect
          /\ last'.body.qr_available = (QrBody.qr # Str(""))]_vars

C17_Witness ==
    /\ last.kind = "response"
    /\ last.route = "/status"
    /\ last.body.qr_available = TRUE
    /\ last.body.ready = TRUE
    /\ last.body.disconnected # Null

\* C20: a disconnected step leaves authenticated, lastQr and lastAuthFailure
\* as they were, and authenticated falls back to false only in a qr
\* continuation or an auth_failure step.
C20_DisconnectedFrame ==
    [][/\ last'.kind = "disconnected" =>
            /\ isAuthenticated' = isAuthenticated
            /\ lastQr' = lastQr
            /\ lastAuthFailure' = lastAuthFailure
       /\ (isAuthenticated /\ ~isAuthenticated') =>
            last'.kind \in {"qr_encoded", "auth_failure"}]_vars

C20_Witness ==
    /\ last.kind = "disconnected"
    /\ isAuthenticated = TRUE
    /\ isReady = FALSE
    /\ ref.isAuthenticated = TRUE
    /\ HealthBody.authenticated = TRUE

\* C18: the lock cleanup has run once when the module is loaded and once more
\* per disconnect (variant 1); a cleanup that fails at load still lets the
\* service start, and one that fails in the disconnected handler still leaves
\* ready false, lastDisconnect set, one more reconnect timer armed and the
\* process where it was.
C18_CleanupBestEffort ==
    /\ [](cleanups = IF variant = 1
                       THEN (IF proc = "loading" THEN 0 ELSE 1) + disconnects
                       ELSE 0)
    /\ [][/\ (last'.kind = "loaded" /\ last'.warn) => proc' = "starting"
          /\ (last'.kind = "disconnected" /\ last'.warn) =>
                /\ isReady' = FALSE
                /\ lastDisconnect' = Expected(last'.arg)
                /\ Len(timers') = Len(timers) + 1
                /\ timers'[Len(timers')].src = "reconnect"
                /\ proc' = proc]_vars

C18_Witness ==
    /\ last.kind = "disconnected"
    /\ last.warn
    /\ "SingletonSocket1" \in profile.files
    /\ "SingletonLock" \notin profile.files
    /\ cleanups = 3
    /\ proc = "listening"

\* C15: the listener is closed only by a shutdown whose destroy() has
\* settled, the process exits only from the close callback (or from the
\* catch around server.close), and once a destroy() has failed the shutdown
\* has still gone on to close the listener and the process eventually exits.
C15_ShutdownOrder ==
    /\ [][/\ (proc = "listening" /\ proc' # "listening") =>
                (last'.kind = "destroy_settled" /\ signals >= 1)
          /\ (proc # "exited" /\ proc' = "exited") =>
                \/ (proc = "closing" /\ last'.kind = "closed")
                \/ (last'.kind = "destroy_settled" /\ last'.closeThrew)
          /\ (last'.kind = "destroy_settled" /\ ~last'.ok) =>
                proc' \in {"closing", "exited"}]_vars
    /\ ((last.kind = "destroy_settled" /\ ~last.ok) ~> (proc = "exited"))

\* C15 (amended): the same order of destroy, close and exit, and a failed
\* destroy() still goes on to close the listener; the close callback exits
\* only when no connection is left, without waiting for a suspended /chats
\* handler, and once the closing process holds no connection it exits.
C15_ExitsOnceDrained ==
    /\ [][/\ (proc = "listening" /\ proc' # "listening") =>
                (last'.kind = "destroy_settled" /\ signals >= 1)
          /\ (proc # "exited" /\ proc' = "exited") =>
                \/ (proc = "closing" /\ ~keepAlive /\ last'.kind = "closed")
                \/ (last'.kind = "destroy_settled" /\ last'.closeThrew)
          /\ (last'.kind = "destroy_settled" /\ ~last'.ok) =>
                proc' \in {"closing", "exited"}]_vars
    /\ ((proc = "closing" /\ ~keepAlive) ~> (proc = "exited"))

C15_Witness ==
    /\ last.kind = "destroy_settled"
    /\ ~last.ok
    /\ proc = "closing"
    /\ ~keepAlive
    /\ chatsPending = 1
    /\ signals = 1
    /\ isReady = TRUE

\* C19: no shutdown step removes a pending timer, and a due timer can still
\* fire after a signal as long as the process has not exited.
C19_TimerSurvivesShutdown ==
    /\ [][last'.kind \in {"signal", "destroy_settled", "connection_ended", "closed"}
             => timers' = timers]_vars
    /\ [](\A i \in 1..Len(timers) :
            (Alive /\ signals >= 1 /\ timers[i].waited >= timers[i].delay
               /\ initCalls < MaxInitCalls) => ENABLED TimerFires(i))

C19_Witness ==
    /\ last.kind = "initialize"
    /\ last.src = "reconnect"
    /\ signals >= 1
    /\ destroyPending = 0
    /\ proc = "closing"

IsChatsResponse(l) == l.kind = "response" /\ l.route = "/chats"

\* C12: a /chats request whose getChats() call fails is answered 500 with
\* {error: <message>}; answering it makes no further getChats() call, arms no
\* timer, calls no initialize() and changes none of the five fields; a
\* successful call is answered 200.
C12_ChatsFailure ==
    [][IsChatsResponse(last') =>
          /\ last'.settled = "rejected" =>
                /\ last'.status = 500
                /\ last'.body = [error |-> last'.value.message]
                /\ chatsPending' = chatsPending - 1
                /\ timers' = timers
                /\ initCalls' = initCalls
                /\ mirror' = mirror
          /\ last'.settled = "fulfilled" => last'.status = 200]_vars

C12_Witness ==
    /\ IsChatsResponse(last)
    /\ last.status = 500
    /\ last.body = [error |-> Str("Session closed")]
    /\ chatsPending = 1
    /\ isReady = TRUE
    /\ timers # <<>>

\* C13: a successful /chats answer has one object per chat, in the same
\* order, with the chat's serialized id and group flag, and with the
\* formatted title as name exactly when the chat's name is absent or empty.
C13_ChatsProjection ==
    (IsChatsResponse(last) /\ last.settled = "fulfilled") =>
        /\ Len(last.body) = Len(last.value)
        /\ \A i \in 1..Len(last.value) :
              /\ DOMAIN last.body[i] = {"id", "name", "isGroup"}
              /\ last.body[i].id = (IF last.value[i].id.t = "object"
                                      THEN Str(last.value[i].id.v) ELSE Undefined)
              /\ last.body[i].isGroup = last.value[i].isGroup
              /\ last.body[i].name =
                    (IF last.value[i].name.t # "string" \/ last.value[i].name.v = ""
                       THEN last.value[i].formattedTitle
                       ELSE last.value[i].name)

C13_Witness ==
    /\ IsChatsResponse(last)
    /\ last.settled = "fulfilled"
    /\ Len(last.body) = 2
    /\ last.body[1].name = Str("Team")
    /\ last.body[2].name = Str("Ana")

\* C14: the five fields start false/empty, and no step that receives or
\* answers an HTTP request (/, /health, /status, /qr, /chats) changes them.
C14_HttpReadOnly ==
    /\ [](last.kind = "load" =>
            /\ isReady = FALSE
            /\ isAuthenticated = FALSE
            /\ lastQr = Null
            /\ lastAuthFailure = Null
            /\ lastDisconnect = Null)
    /\ [][last'.kind \in {"request", "response"} => mirror' = mirror]_vars

C14_Witness ==
    /\ last.kind = "response"
    /\ last.route = "/qr"
    /\ last.body.qr # Str("")
    /\ Truthy(lastQr)
    /\ isReady = TRUE
    /\ chatsPending > 0

\* C16: nothing is initialized before the listen callback; the callback runs
\* once and accounts for exactly one initialize() call, made at once or armed
\* on the boot timer; a listening process answers /health whatever the client
\* is doing, and a rejected initialize() leaves the listener as it was.
C16_Bootstrap ==
    /\ [](proc = "starting" => PendingBoot = 0)
    /\ [](Serving => ENABLED GetHealth)
    /\ [][/\ last'.kind = "listening" =>
                /\ proc = "starting" /\ proc' = "listening"
                /\ initCalls' + PendingBoot' = initCalls + PendingBoot + 1
          /\ PendingBoot' > PendingBoot => last'.kind = "listening"
          /\ proc # "starting" => proc' # "starting"
          /\ (last'.kind = "initialize" /\ last'.src = "boot") =>
                (proc = "listening" /\ PendingBoot' = 0)
          /\ last'.kind = "init_rejected" => (proc' = proc /\ Serving' = Serving)]_vars

C16_Witness ==
    /\ last.kind = "response"
    /\ last.route = "/health"
    /\ last.body.ready = FALSE
    /\ initCalls = 1
    /\ initPending = 1
    /\ disconnects = 0
====
